---- MODULE Spec2Model ----
(***************************************************************************)
(* TrailsInTheSkyFCFix: the signature scanner, the byte formatter, the     *)
(* memory patcher and the hook injection of src/inc/utils.hpp and          *)
(* src/src/utils.cpp, and Main with its three fixes and the tile-render    *)
(* callback of src/src/dllmain.cpp.                                        *)
(*                                                                         *)
(* Pattern texts are strings, read character by character with SubSeq, as  *)
(* the string streams of the source read them.  Unsigned 64-bit words of   *)
(* the source (u64, size_t, uintptr_t) are words of WordBits bits here:    *)
(* all arithmetic on them is taken modulo Word.                            *)
(***************************************************************************)
EXTENDS Integers, Sequences, FiniteSets, TLC

(* ---------------------------------------------------------------- bounds *)
WordBits == 24
MaxImage == 4
MaxTokens == 2

Word == 2^WordBits

(* ------------------------------------------------------ text and tokens  *)
CharAt(s, i) == SubSeq(s, i, i)

(* Op(v), with v evaluated once, before Op is applied (a local variable    *)
(* that holds a value, not an expression computed again at each use).      *)
With(v, Op(_)) == CHOOSE r \in {Op(x) : x \in {v}} : TRUE

HexDigits == <<"0","1","2","3","4","5","6","7","8","9","A","B","C","D","E","F">>
HexLower == <<"0","1","2","3","4","5","6","7","8","9","a","b","c","d","e","f">>

IsHexChar(c) == \E i \in 1..16 : HexDigits[i] = c \/ HexLower[i] = c

HexVal(c) == (CHOOSE i \in 1..16 : HexDigits[i] = c \/ HexLower[i] = c) - 1

(* operator>> on a string stream: skip whitespace, take the run of         *)
(* non-blank characters.  Tokenize is the whole `while (ss >> byteStr)`.   *)
RECURSIVE TokenEnd(_, _)
TokenEnd(s, i) ==
  IF i > Len(s) \/ CharAt(s, i) = " " THEN i ELSE TokenEnd(s, i + 1)

RECURSIVE TokenizeFrom(_, _)
TokenizeFrom(s, i) ==
  IF i > Len(s) THEN << >>
  ELSE IF CharAt(s, i) = " " THEN TokenizeFrom(s, i + 1)
  ELSE With(TokenEnd(s, i), LAMBDA e : <<SubSeq(s, i, e - 1)>> \o TokenizeFrom(s, e))

Tokenize(s) == TokenizeFrom(s, 1)

(* The length of the longest prefix of tok made of hex digits.             *)
RECURSIVE HexPrefixLen(_, _)
HexPrefixLen(tok, i) ==
  IF i > Len(tok) \/ ~IsHexChar(CharAt(tok, i)) THEN i - 1
  ELSE HexPrefixLen(tok, i + 1)

RECURSIVE HexValueOf(_, _)
HexValueOf(tok, n) ==
  IF n = 0 THEN 0 ELSE HexValueOf(tok, n - 1) * 16 + HexVal(CharAt(tok, n))

(* `u32 byte; std::stringstream(byteStr) >> std::hex >> byte;` then        *)
(* static_cast<u8>: the hex-digit prefix is converted, a failed            *)
(* extraction stores zero, and the cast keeps the low eight bits.  (A      *)
(* token of the model has at most seven hex digits, so the u32 never       *)
(* overflows.)                                                             *)
WildcardByte == 255

ScanTokenByte(tok) ==
  IF tok = "??" THEN WildcardByte
  ELSE LET n == HexPrefixLen(tok, 1)
       IN  IF n = 0 THEN 0 ELSE HexValueOf(tok, n) % 256

(* patternToByte of patternScan: one byte per token.                       *)
ScanPatternToByte(text) ==
  LET toks == Tokenize(text)
  IN  [k \in 1..Len(toks) |-> ScanTokenByte(toks[k])]

(* The comparison lambda given to std::equal.                              *)
ByteMatches(patternByte, scanByte) ==
  patternByte = WildcardByte \/ patternByte = scanByte

(* std::equal(patternBytes.begin(), patternBytes.end(),                    *)
(*            scanBytes.begin() + i, pred) for an offset with i + L <= N.  *)
EqualAt(patternBytes, img, i) ==
  \A j \in 1..Len(patternBytes) : ByteMatches(patternBytes[j], img[i + j])

(* The addresses pushed for the offsets i..last, in loop order.            *)
RECURSIVE PushedFrom(_, _, _, _, _)
PushedFrom(patternBytes, img, moduleAddr, i, last) ==
  IF i > last THEN << >>
  ELSE (IF EqualAt(patternBytes, img, i) THEN <<(moduleAddr + i) % Word>> ELSE << >>)
       \o PushedFrom(patternBytes, img, moduleAddr, i + 1, last)

(* The loop bound `sizeOfImage - patternSize`, an unsigned difference.     *)
LoopBound(sizeOfImage, patternSize) == (sizeOfImage - patternSize) % Word

(* void patternScan(void* module, std::string_view signature,              *)
(*                  std::vector<u64>& addresses): every way the call can   *)
(* end.  A record gives how it ended, the vector afterwards, the offsets   *)
(* of the loop known to have been examined and whether a byte outside the  *)
(* image was read.                                                         *)
(*  - 1 <= L <= N: the loop runs over 0..N-L inside the image.             *)
(*  - L = 0: std::equal over an empty range is true at each of 0..N; the   *)
(*    last push forms &scanBytes[N], an index outside the span, which a    *)
(*    checked span traps and an unchecked one computes.                    *)
(*  - L > N: the bound wraps to Word + N - L, the loop runs past the image *)
(*    and reads the byte at index N at the latest; it ends in an access    *)
(*    violation or does not end.                                           *)
PatternScan(img, moduleAddr, sig, addrs) ==
  LET patternBytes == ScanPatternToByte(sig)
      patternSize == Len(patternBytes)
      sizeOfImage == Len(img)
      bound == LoopBound(sizeOfImage, patternSize)
  IN  IF patternSize = 0
      THEN { [end |-> "returned",
              addresses |-> addrs \o [k \in 1..(bound + 1) |-> (moduleAddr + k - 1) % Word],
              examined |-> 0..bound, oob |-> FALSE],
             [end |-> "fault", addresses |-> addrs, examined |-> 0..bound, oob |-> FALSE] }
      ELSE IF bound + patternSize <= sizeOfImage
      THEN { [end |-> "returned",
              addresses |-> addrs \o PushedFrom(patternBytes, img, moduleAddr, 0, bound),
              examined |-> 0..bound, oob |-> FALSE] }
      ELSE { [end |-> e, addresses |-> addrs, examined |-> 0..sizeOfImage, oob |-> TRUE]
             : e \in {"fault", "hang"} }

(* ------------------------------------------- the single-result scan      *)
(* uintptr_t patternScan(void* module, std::string& signature) is declared *)
(* in utils.hpp and called by injectHook; its definition is not among the  *)
(* sources.  It is modelled from the specification (4.1 decode, 4.2        *)
(* scanFirst, 7 MalformedPatternError).                                    *)
Wildcard == -1

IsPatternToken(tok) ==
  tok = "??" \/ (Len(tok) = 2 /\ IsHexChar(CharAt(tok, 1)) /\ IsHexChar(CharAt(tok, 2)))

(* decode: the text is rejected when it is empty or holds a token that is  *)
(* neither ?? nor two hex digits.                                          *)
DecodeAccepts(text) ==
  With(Tokenize(text), LAMBDA toks :
    Len(toks) > 0 /\ \A k \in 1..Len(toks) : IsPatternToken(toks[k]))

Decode(text) ==
  With(Tokenize(text), LAMBDA toks :
    [k \in 1..Len(toks) |->
         IF toks[k] = "??" THEN Wildcard ELSE HexValueOf(toks[k], 2)])

TokenMatches(token, byte) == token = Wildcard \/ token = byte

MatchesAt(pat, img, o) ==
  \A j \in 1..Len(pat) : TokenMatches(pat[j], img[o + j])

NotFound == 0

(* A scan that keeps the last match instead of the first.                  *)
ScanFirstKeepsLast(img, moduleAddr, sig) ==
  IF ~DecodeAccepts(sig) THEN NotFound
  ELSE LET pat == Decode(sig)
           offs == {o \in 0..(Len(img) - Len(pat)) : MatchesAt(pat, img, o)}
       IN  IF offs = {} THEN NotFound
           ELSE moduleAddr + (CHOOSE o \in offs : \A q \in offs : o >= q)

ScanFirst(img, moduleAddr, sig) ==
  IF ~DecodeAccepts(sig) THEN NotFound
  ELSE With(Decode(sig), LAMBDA pat :
         With({o \in 0..(Len(img) - Len(pat)) : MatchesAt(pat, img, o)}, LAMBDA offs :
           IF offs = {} THEN NotFound
           ELSE moduleAddr + (CHOOSE o \in offs : \A q \in offs : o <= q)))

(* ----------------------------------------------------------- the state   *)
VARIABLES
  image,      \* the bytes of the loaded module, image[1] at module.address
  base,       \* module.address
  signature,  \* patternScan: the pattern text given
  addresses,  \* patternScan: the caller's vector
  hit,        \* the value the single-result scan returned
  scanOp,     \* which scan was applied: "none", "scanAll", "scanFirst"
  scanEnd,    \* how it ended: "idle", "returned", "fault", "hang"
  examined,   \* the loop offsets the scan examined
  oobRead,    \* whether the scan read a byte outside the image
  addresses0, \* the caller's vector as it was before the call
  mem,          \* patch: the bytes of the memory around the target
  prot,         \* patch: the protection of each page ("FREE": not mapped)
  wxDenied,     \* patch: the process forbids writable-and-executable pages
  address,      \* patch: the address given
  pattern,      \* patch: the pattern text given
  ppc,          \* patch: "idle", "protect", "copy", "returned", "fault", "terminated"
  patternBytes, \* patch: the local patternBytes
  oldProtect,   \* patch: the local oldProtect
  copied,       \* patch: the indices of patternBytes memcpy has written
  vp1,          \* patch: the first VirtualProtect: "none", "ok", "failed"
  mem0,         \* patch: mem as it was before the call
  prot0,        \* patch: prot as it was before the call
  config,       \* the settings document TrailsInTheSkyFix.yml
  yml,          \* the global yml
  exeName,      \* the file name of the host executable
  moduleName,   \* module.name
  moduleId,     \* module.id
  pc,           \* where Main is
  hooks,        \* the static SafetyHookMid of each injectHook instantiation
  events,       \* what Main has done so far, in order
  bytes,        \* bytesToString: the span given
  encoded,      \* the pattern text bytesToString returned
  patchDecoded, \* what patch's patternToByte made of it
  scanDecoded,  \* what patternScan's patternToByte made of it
  cdone,        \* which of "encode", "patch" ("patch threw"), "scan" are done
  fov,          \* the floats at ctx.eax + 0x24 and ctx.eax + 0x30
  originalFov,  \* the static f32 originalFov of the tile-render callback
  xmm0,         \* ctx.xmm0.f32[0] as the callback last left it
  entryTarget,  \* *targetAddr as the latest invocation found it
  captured,     \* whether an invocation has stored into originalFov
  last          \* the latest to touch the floats: "none", "callback", "game"

scanVars == <<signature, addresses, hit, scanOp, scanEnd, examined, oobRead, addresses0>>

patchVars == <<mem, prot, wxDenied, address, pattern, ppc, patternBytes, oldProtect,
               copied, vp1, mem0, prot0>>

mainVars == <<config, yml, exeName, moduleName, moduleId, pc, hooks, events>>

codecVars == <<bytes, encoded, patchDecoded, scanDecoded, cdone>>

tileVars == <<fov, originalFov, xmm0, entryTarget, captured, last>>

vars == <<image, base, scanVars, patchVars, mainVars, codecVars, tileVars>>

(* ------------------------------------------------------------- patch     *)
PageCells == 2

PageIds == {0, 1}

Cells == 0..(Cardinality(PageIds) * PageCells - 1)

PageOf(a) == a \div PageCells

Protections == {"R", "RW", "RX", "RWX"}

Writable(p) == p \in {"RW", "RWX"}

Mapped(pg) == pg \in PageIds /\ prot[pg] # "FREE"

(* The pages holding a byte of [addr, addr + len).                         *)
PagesOf(addr, len) == PageOf(addr)..PageOf(addr + len - 1)

(* BOOL VirtualProtect(lpAddress, dwSize, flNewProtect, lpflOldProtect):   *)
(* whether the call succeeds.  It fails for an empty region, for a region  *)
(* with a page that is not committed, for a value that is no protection    *)
(* constant, and for PAGE_EXECUTE_READWRITE in a process that forbids it.  *)
VirtualProtectOk(addr, len, newProtect) ==
  /\ len > 0
  /\ \A pg \in PagesOf(addr, len) : Mapped(pg)
  /\ newProtect \in Protections
  /\ ~(wxDenied /\ newProtect = "RWX")

(* A protection change that reaches the first page of the region only.     *)
VirtualProtectFirstPage(addr, len, newProtect) ==
  [pg \in PageIds |-> IF pg = PageOf(addr) THEN newProtect ELSE prot[pg]]

(* On success every page of the region takes the new protection and the   *)
(* old protection of the FIRST page is stored through lpflOldProtect.      *)
VirtualProtectPages(addr, len, newProtect) ==
  [pg \in PageIds |-> IF pg \in PagesOf(addr, len) THEN newProtect ELSE prot[pg]]

(* std::stoul(byteStr, nullptr, 16) and static_cast<u8>: the hex-digit     *)
(* prefix is converted; with no hex digit std::invalid_argument is thrown. *)
PatchTokenThrows(tok) == HexPrefixLen(tok, 1) = 0

PatchTokenByte(tok) == HexValueOf(tok, HexPrefixLen(tok, 1)) % 256

(* patternToByte of patch.                                                 *)
PatchPatternToByte(text) ==
  LET toks == Tokenize(text)
  IN  [k \in 1..Len(toks) |-> PatchTokenByte(toks[k])]

PatchPatternThrows(text) ==
  LET toks == Tokenize(text)
  IN  \E k \in 1..Len(toks) : PatchTokenThrows(toks[k])

PatchIdle ==
  /\ mem = [c \in Cells |-> 204]
  /\ prot = [pg \in PageIds |-> "RX"]
  /\ wxDenied = FALSE
  /\ address = 0
  /\ pattern = ""
  /\ ppc = "idle"
  /\ patternBytes = << >>
  /\ oldProtect = "uninitialized"
  /\ copied = {}
  /\ vp1 = "none"
  /\ mem0 = mem
  /\ prot0 = prot

PatchTokens == {"90", "EB", "??"}

RECURSIVE PatchTextsOf(_)
PatchTextsOf(n) ==
  IF n = 0 THEN {""}
  ELSE IF n = 1 THEN PatchTokens
  ELSE {t \o " " \o k : t \in PatchTextsOf(n - 1), k \in PatchTokens}

(* void patch(u64 address, std::string_view pattern), lines 93-94: the     *)
(* pattern is converted; an exception of the conversion is caught nowhere. *)
PatchCall ==
  /\ ppc = "idle"
  /\ IF PatchPatternThrows(pattern)
     THEN ppc' = "terminated" /\ UNCHANGED patternBytes
     ELSE ppc' = "protect" /\ patternBytes' = PatchPatternToByte(pattern)
  /\ UNCHANGED <<mem, prot, wxDenied, address, pattern, oldProtect, copied, vp1, mem0, prot0>>
  /\ UNCHANGED <<image, base, scanVars, mainVars, codecVars, tileVars>>

(* Line 95: VirtualProtect(address, size, PAGE_EXECUTE_READWRITE,          *)
(* &oldProtect); its result is not looked at.  When it fails oldProtect    *)
(* stays uninitialized: any value.                                         *)
PatchProtect ==
  /\ ppc = "protect"
  /\ IF VirtualProtectOk(address, Len(patternBytes), "RWX")
     THEN /\ oldProtect' = prot[PageOf(address)]
          /\ prot' = VirtualProtectPages(address, Len(patternBytes), "RWX")
          /\ vp1' = "ok"
     ELSE /\ oldProtect' \in Protections \cup {"garbage"}
          /\ prot' = prot
          /\ vp1' = "failed"
  /\ ppc' = "copy"
  /\ UNCHANGED <<mem, wxDenied, address, pattern, patternBytes, copied, mem0, prot0>>
  /\ UNCHANGED <<image, base, scanVars, mainVars, codecVars, tileVars>>

(* Line 96: memcpy writes the bytes one at a time, in no fixed order; a    *)
(* write to a page that is not writable is an access violation.            *)
PatchCopy ==
  /\ ppc = "copy"
  /\ \E k \in (1..Len(patternBytes)) \ copied :
       LET a == address + k - 1
       IN  IF Mapped(PageOf(a)) /\ Writable(prot[PageOf(a)])
           THEN /\ mem' = [mem EXCEPT ![a] = patternBytes[k]]
                /\ copied' = copied \cup {k}
                /\ ppc' = ppc
           ELSE /\ ppc' = "fault"
                /\ UNCHANGED <<mem, copied>>
  /\ UNCHANGED <<prot, wxDenied, address, pattern, patternBytes, oldProtect, vp1, mem0, prot0>>
  /\ UNCHANGED <<image, base, scanVars, mainVars, codecVars, tileVars>>

(* Line 97: VirtualProtect(address, size, oldProtect, &oldProtect), then   *)
(* patch returns.                                                          *)
PatchRestore ==
  /\ ppc = "copy"
  /\ copied = 1..Len(patternBytes)
  /\ IF VirtualProtectOk(address, Len(patternBytes), oldProtect)
     THEN /\ oldProtect' = prot[PageOf(address)]
          /\ prot' = VirtualProtectPages(address, Len(patternBytes), oldProtect)
     ELSE UNCHANGED <<oldProtect, prot>>
  /\ ppc' = "returned"
  /\ UNCHANGED <<mem, wxDenied, address, pattern, patternBytes, copied, vp1, mem0, prot0>>
  /\ UNCHANGED <<image, base, scanVars, mainVars, codecVars, tileVars>>

(* -------------------------------------------------------------- Main    *)
MaxSegs == 2

Fixes == {"forceKeepAspect", "texturesFix", "tileRenderFix"}

(* f32: a value is not-a-number or a number, kept in hundredths (0.28 is   *)
(* 28).  operator!= is true whenever an operand is not-a-number; a product *)
(* is rounded to the hundredth.                                            *)
F32(v) == [nan |-> FALSE, v |-> v]

NaN == [nan |-> TRUE, v |-> 0]

F32Ne(a, b) == a.nan \/ b.nan \/ a.v # b.v

F32Mul(a, b) == IF a.nan \/ b.nan THEN NaN ELSE F32((a.v * b.v) \div 100)

(* The yml of a program that has not read its settings: a global, zeroed.  *)
YmlZero ==
  [masterEnable |-> FALSE, textures |-> FALSE, tileRenderDistance |-> FALSE,
   cameraEnable |-> FALSE, zoom |-> F32(0)]

(* The Utils::SignatureHook each fix constructs.                           *)
AspectSignature == "76 ?? F2 0F 5E C8 F2 0F 11 0D ?? ?? ?? ?? 80 3D ?? ?? ?? ?? 00 75 ??"
AspectOffset == 21
TexturesSignature == "66 0F 2F C1 76 ?? A1 ?? ?? ?? ?? 66 0F 6E 05 ?? ?? ?? ??"
TexturesOffset == 0
TileSignature == "F3 0F 11 4C 24 04    F3 0F 11 04 24    51    FF D6"
TileOffset == 0

SignatureOf(fix) ==
  CASE fix = "forceKeepAspect" -> AspectSignature
    [] fix = "texturesFix" -> TexturesSignature
    [] fix = "tileRenderFix" -> TileSignature

OffsetOf(fix) ==
  CASE fix = "forceKeepAspect" -> AspectOffset
    [] fix = "texturesFix" -> TexturesOffset
    [] fix = "tileRenderFix" -> TileOffset

(* `bool enable = ...` of each fix.                                        *)
ForceKeepAspectEnable(y) == y.masterEnable
(* The textures flag alone, without the master switch.                     *)
TexturesFixEnableNoMaster(y) == y.textures

TexturesFixEnable(y) == y.masterEnable /\ y.textures
TileRenderFixEnable(y) == y.masterEnable /\ y.tileRenderDistance

EnableOf(fix, y) ==
  CASE fix = "forceKeepAspect" -> ForceKeepAspectEnable(y)
    [] fix = "texturesFix" -> TexturesFixEnable(y)
    [] fix = "tileRenderFix" -> TileRenderFixEnable(y)

(* exeMap and `module.id = exeMap[module.name]`: a name the map does not   *)
(* hold is inserted with the value 0.                                      *)
ExeMap(name) ==
  CASE name = "ed6_win_DX9.exe" -> 1
    [] name = "ed6_win2_DX9.exe" -> 2
    [] name = "ed6_win3_DX9.exe" -> 3
    [] OTHER -> 0

(* injectHook, lines 164-168.                                              *)
(* A hit test that takes every result for a hit.                           *)
HitFoundAlways(h) == TRUE

(* A hook address that leaves the offset out.                              *)
HookAbsAddrNoOffset(absAddr, offset) == absAddr % Word

HitFound(h) == h # 0
RelAddr(h, moduleAddr) == (h - moduleAddr) % Word
HookAbsAddr(absAddr, offset) == (absAddr + offset) % Word
HookRelAddr(relAddr, offset) == (relAddr + offset) % Word

(* safetyhook::create_mid(target, callback): the hook replaces the five    *)
(* bytes at the target by a jump (E9 and a displacement, not modelled: 0)  *)
(* to its trampoline, or fails and changes nothing.  It cannot succeed     *)
(* where there are no five bytes of the image.                             *)
JumpLen == 5

CreateMidOutcomes(img, moduleAddr, target) ==
  IF target >= moduleAddr /\ target + JumpLen <= moduleAddr + Len(img)
  THEN {TRUE, FALSE} ELSE {FALSE}

HookedImage(img, moduleAddr, target) ==
  [k \in 1..Len(img) |->
     IF k - 1 = target - moduleAddr THEN 233
     ELSE IF k - 1 > target - moduleAddr /\ k - 1 < target - moduleAddr + JumpLen THEN 0
     ELSE img[k]]

HookOf(fix) == hooks[fix]

(* template <typename Func> void injectHook(bool enable, ModuleInfo&       *)
(* module, SignatureHook& hook, Func&& callback), the whole call.  Each    *)
(* fix passes a lambda of its own type, so each has its own instantiation  *)
(* and its own static SafetyHookMid, initialized the first time control    *)
(* reaches its declaration.  reinterpret_cast<void*>(hookAbsAddr) keeps    *)
(* the word: an address is a word of the model.                            *)
InjectHook(fix, enable, sig, offset) ==
  LET h == ScanFirst(image, base, sig)
      absAddr == h
      relAddr == RelAddr(h, base)
      hookAbsAddr == HookAbsAddr(absAddr, offset)
      hookRelAddr == HookRelAddr(relAddr, offset)
      enter == [ev |-> "enter", fix |-> fix, enable |-> enable, image |-> image]
      logFix == [ev |-> "log", fix |-> fix, msg |-> "Fix",
                 arg |-> IF enable THEN "Enabled" ELSE "Disabled"]
      scan == [ev |-> "patternScan", fix |-> fix, signature |-> sig, hit |-> h]
      logFound == [ev |-> "log", fix |-> fix, msg |-> "Found", signature |-> sig,
                   name |-> moduleName, rel |-> relAddr]
      logHooked == [ev |-> "log", fix |-> fix, msg |-> "Hooked",
                    name |-> moduleName, rel |-> hookRelAddr]
      logMissing == [ev |-> "log", fix |-> fix, msg |-> "Did not find", signature |-> sig]
  IN  IF ~enable
      THEN /\ events' = events \o <<enter, logFix, [ev |-> "return", fix |-> fix, image |-> image]>>
           /\ UNCHANGED <<image, hooks>>
      ELSE IF ~HitFound(h)
      THEN /\ events' = events \o <<enter, logFix, scan, logMissing,
                                    [ev |-> "return", fix |-> fix, image |-> image]>>
           /\ UNCHANGED <<image, hooks>>
      ELSE IF HookOf(fix).init
      THEN /\ events' = events \o <<enter, logFix, scan, logFound, logHooked,
                                    [ev |-> "return", fix |-> fix, image |-> image]>>
           /\ UNCHANGED <<image, hooks>>
      ELSE \E ok \in CreateMidOutcomes(image, base, hookAbsAddr) :
             /\ image' = IF ok THEN HookedImage(image, base, hookAbsAddr) ELSE image
             /\ hooks' = [hooks EXCEPT ![fix] =
                            [init |-> TRUE, addr |-> IF ok THEN hookAbsAddr ELSE 0]]
             /\ events' = events \o
                  <<enter, logFix, scan, logFound,
                    [ev |-> "create_mid", fix |-> fix, target |-> hookAbsAddr, ok |-> ok],
                    logHooked, [ev |-> "return", fix |-> fix, image |-> image']>>

(* A body that applies the textures fix before the aspect-ratio fix.       *)
MainBodyTexturesFirst ==
  <<"logInit", "readYml", "texturesFix", "forceKeepAspect", "tileRenderFix", "return">>

(* DWORD __stdcall Main(void* lpParameter): the statements of its body, in *)
(* the order written; After(stmt) is the statement control reaches when    *)
(* stmt has returned.                                                      *)
MainBody ==
  <<"logInit", "readYml", "forceKeepAspect", "texturesFix", "tileRenderFix", "return">>

After(stmt) ==
  LET k == CHOOSE i \in 1..Len(MainBody) : MainBody[i] = stmt
  IN  IF k = Len(MainBody) THEN "done" ELSE MainBody[k + 1]

(* logInit(): module.name and module.id are set from the executable's file *)
(* name, and the module's details are logged.                              *)
LogInit ==
  /\ pc = "logInit"
  /\ moduleName' = exeName
  /\ moduleId' = ExeMap(exeName)
  /\ events' = Append(events, [ev |-> "log", fix |-> "logInit", msg |-> "Module Name",
                               name |-> exeName])
  /\ pc' = After("logInit")
  /\ UNCHANGED <<image, base, config, yml, exeName, hooks, scanVars, patchVars, codecVars, tileVars>>

(* readYml(): the settings are copied into yml and logged.                 *)
ReadYml ==
  /\ pc = "readYml"
  /\ yml' = [masterEnable |-> config.masterEnable,
             textures |-> config.textures,
             tileRenderDistance |-> config.tileRenderDistance,
             cameraEnable |-> config.cameraEnable,
             zoom |-> IF config.cameraEnable THEN config.zoom ELSE F32(100)]
  /\ events' = Append(events, [ev |-> "log", fix |-> "readYml", msg |-> "MasterEnable",
                               arg |-> config.masterEnable])
  /\ pc' = After("readYml")
  /\ UNCHANGED <<image, base, config, exeName, moduleName, moduleId, hooks, scanVars, patchVars, codecVars, tileVars>>

ForceKeepAspect ==
  /\ pc = "forceKeepAspect"
  /\ InjectHook("forceKeepAspect", ForceKeepAspectEnable(yml), AspectSignature, AspectOffset)
  /\ pc' = After("forceKeepAspect")
  /\ UNCHANGED <<base, config, yml, exeName, moduleName, moduleId, scanVars, patchVars, codecVars, tileVars>>

(* A textures fix that gives up the rest of Main when its pattern is not   *)
(* found.                                                                  *)
TexturesFixAbortsOnMiss ==
  /\ pc = "texturesFix"
  /\ InjectHook("texturesFix", TexturesFixEnable(yml), TexturesSignature, TexturesOffset)
  /\ pc' = IF TexturesFixEnable(yml) /\ ~HitFound(ScanFirst(image, base, TexturesSignature))
           THEN "return" ELSE After("texturesFix")
  /\ UNCHANGED <<base, config, yml, exeName, moduleName, moduleId, scanVars, patchVars, codecVars, tileVars>>

TexturesFix ==
  /\ pc = "texturesFix"
  /\ InjectHook("texturesFix", TexturesFixEnable(yml), TexturesSignature, TexturesOffset)
  /\ pc' = After("texturesFix")
  /\ UNCHANGED <<base, config, yml, exeName, moduleName, moduleId, scanVars, patchVars, codecVars, tileVars>>

TileRenderFix ==
  /\ pc = "tileRenderFix"
  /\ InjectHook("tileRenderFix", TileRenderFixEnable(yml), TileSignature, TileOffset)
  /\ pc' = After("tileRenderFix")
  /\ UNCHANGED <<base, config, yml, exeName, moduleName, moduleId, scanVars, patchVars, codecVars, tileVars>>

(* A return that destroys the hook objects, as it would were they locals   *)
(* of Main's calls and not statics.                                        *)
MainReturnUnhooks ==
  /\ pc = "return"
  /\ pc' = After("return")
  /\ events' = Append(events, [ev |-> "Main returns", fix |-> "Main", value |-> TRUE])
  /\ hooks' = [f \in Fixes |-> [init |-> hooks[f].init, addr |-> 0]]
  /\ UNCHANGED <<image, base, config, yml, exeName, moduleName, moduleId,
                 scanVars, patchVars, codecVars, tileVars>>

(* `return true;`                                                          *)
MainReturn ==
  /\ pc = "return"
  /\ pc' = After("return")
  /\ events' = Append(events, [ev |-> "Main returns", fix |-> "Main", value |-> TRUE])
  /\ UNCHANGED <<image, base, config, yml, exeName, moduleName, moduleId, hooks,
                 scanVars, patchVars, codecVars, tileVars>>

MainIdle ==
  /\ config = YmlZero
  /\ yml = YmlZero
  /\ exeName = "ed6_win_DX9.exe"
  /\ moduleName = ""
  /\ moduleId = 0
  /\ pc = "unstarted"
  /\ hooks = [f \in Fixes |-> [init |-> FALSE, addr |-> 0]]
  /\ events = << >>

(* ------------------------------------------------------ bytesToString   *)
(* std::format("{:02X} ", byte): two upper-case hex digits and a space.    *)
HexByte(b) == HexDigits[(b \div 16) + 1] \o HexDigits[(b % 16) + 1]

RECURSIVE FormatAll(_)
FormatAll(bs) ==
  IF bs = << >> THEN "" ELSE HexByte(Head(bs)) \o " " \o FormatAll(Tail(bs))

(* std::string bytesToString(std::span<const u8> bytes): the formatted     *)
(* bytes, the last space popped when there is one.                         *)
BytesToString(bs) ==
  LET p == FormatAll(bs)
  IN  IF p # "" THEN SubSeq(p, 1, Len(p) - 1) ELSE p

CodecIdle ==
  /\ bytes = << >>
  /\ encoded = ""
  /\ patchDecoded = << >>
  /\ scanDecoded = << >>
  /\ cdone = {}

(* A caller applies bytesToString to the span.                             *)
Encode ==
  /\ cdone = {}
  /\ encoded' = BytesToString(bytes)
  /\ cdone' = {"encode"}
  /\ UNCHANGED <<bytes, patchDecoded, scanDecoded>>
  /\ UNCHANGED <<image, base, scanVars, patchVars, mainVars, tileVars>>

(* The text is given to patch: its patternToByte converts it, or throws.   *)
DecodeForPatch ==
  /\ "encode" \in cdone
  /\ cdone \cap {"patch", "patch threw"} = {}
  /\ IF PatchPatternThrows(encoded)
     THEN patchDecoded' = patchDecoded /\ cdone' = cdone \cup {"patch threw"}
     ELSE patchDecoded' = PatchPatternToByte(encoded) /\ cdone' = cdone \cup {"patch"}
  /\ UNCHANGED <<bytes, encoded, scanDecoded>>
  /\ UNCHANGED <<image, base, scanVars, patchVars, mainVars, tileVars>>

(* The text is given to patternScan: its patternToByte converts it.        *)
DecodeForScan ==
  /\ "encode" \in cdone
  /\ "scan" \notin cdone
  /\ scanDecoded' = ScanPatternToByte(encoded)
  /\ cdone' = cdone \cup {"scan"}
  /\ UNCHANGED <<bytes, encoded, patchDecoded>>
  /\ UNCHANGED <<image, base, scanVars, patchVars, mainVars, tileVars>>

(* ------------------------------------------- the tile-render callback    *)
TRAILS_IN_THE_SKY_3RD == 3

(* `u32 offset = module.id == TRAILS_IN_THE_SKY_3RD ? 0x30 : 0x24;`        *)
(* An offset that is 0x24 for every game.                                  *)
TargetOffsetSame(id) == 36

TargetOffset(id) == IF id = TRAILS_IN_THE_SKY_3RD THEN 48 ELSE 36

TargetOffsets == {36, 48}

(* `f32 newFov = 2.0f * std::numbers::pi_v<f32>;`                          *)
NewFov == F32(628)

(* What the game may store in its field-of-view floats: zero, its default  *)
(* 0.28, the value the callback writes, not-a-number.                      *)
GameFloats == {F32(0), F32(28), NewFov, NaN}

TileIdle ==
  /\ fov = [o \in TargetOffsets |-> F32(28)]
  /\ originalFov = F32(0)
  /\ xmm0 = F32(0)
  /\ entryTarget = F32(0)
  /\ captured = FALSE
  /\ last = "none"

(* The lambda given to injectHook by tileRenderFix, run by the game's      *)
(* thread each time it reaches the hooked instruction.                     *)
TileCallback ==
  /\ hooks["tileRenderFix"].addr # 0
  /\ LET offset == TargetOffset(moduleId)
         differs == F32Ne(fov[offset], NewFov)
     IN  /\ originalFov' = IF differs THEN fov[offset] ELSE originalFov
         /\ fov' = IF differs THEN [fov EXCEPT ![offset] = NewFov] ELSE fov
         /\ xmm0' = F32Mul(originalFov', yml.zoom)
         /\ entryTarget' = fov[offset]
         /\ captured' = (captured \/ differs)
  /\ last' = "callback"
  /\ UNCHANGED <<image, base, scanVars, patchVars, mainVars, codecVars>>

(* The game stores a value in one of its two floats.                       *)
GameWrite ==
  /\ \E o \in TargetOffsets, v \in GameFloats : fov' = [fov EXCEPT ![o] = v]
  /\ last' = "game"
  /\ UNCHANGED <<originalFov, xmm0, entryTarget, captured>>
  /\ UNCHANGED <<image, base, scanVars, patchVars, mainVars, codecVars>>

(* ------------------------------------------------ inputs of the scans    *)
ImageBytes == {0, 127, 255}
TokenSet == {"??", "FF", "7F", "GG"}
ModuleBases == {4194304}

RECURSIVE TextsOf(_)
TextsOf(n) ==
  IF n = 0 THEN {""}
  ELSE IF n = 1 THEN TokenSet
  ELSE {t \o " " \o k : t \in TextsOf(n - 1), k \in TokenSet}

PatternTexts == UNION {TextsOf(n) : n \in 0..MaxTokens}

Images == UNION {[1..n -> ImageBytes] : n \in 1..MaxImage}

ScanIdle ==
  /\ hit = NotFound
  /\ scanOp = "none"
  /\ scanEnd = "idle"
  /\ examined = {}
  /\ oobRead = FALSE

InitScan ==
  /\ PatchIdle
  /\ MainIdle
  /\ CodecIdle
  /\ TileIdle
  /\ image \in Images
  /\ base \in ModuleBases
  /\ signature \in PatternTexts
  /\ addresses \in {<< >>, <<1>>}
  /\ addresses0 = addresses
  /\ ScanIdle

(* A caller applies the vector-filling patternScan.                        *)
ScanAllCall ==
  /\ scanOp = "none"
  /\ \E r \in PatternScan(image, base, signature, addresses) :
       /\ addresses' = r.addresses
       /\ scanEnd' = r.end
       /\ examined' = r.examined
       /\ oobRead' = r.oob
  /\ scanOp' = "scanAll"
  /\ UNCHANGED <<image, base, signature, hit, addresses0, patchVars, mainVars,
                 codecVars, tileVars>>

(* A caller applies the single-result patternScan.                         *)
ScanFirstCall ==
  /\ scanOp = "none"
  /\ hit' = ScanFirst(image, base, signature)
  /\ scanOp' = "scanFirst"
  /\ scanEnd' = "returned"
  /\ UNCHANGED <<image, base, signature, addresses, examined, oobRead, addresses0, patchVars, mainVars,
                 codecVars, tileVars>>

NextScan == ScanAllCall \/ ScanFirstCall

SpecScan == InitScan /\ [][NextScan]_vars

(* ------------------------------------------------ the claims on scans    *)
(* What the pattern text spells: position j is a wildcard exactly when its *)
(* token is ??, and holds the byte its two hex digits denote otherwise.    *)
TextWellFormed(text) ==
  LET toks == Tokenize(text)
  IN  Len(toks) >= 1 /\ \A k \in 1..Len(toks) : IsPatternToken(toks[k])

(* What each position of the text spells: -1 for ??, the byte otherwise.   *)
Spelled(text) ==
  LET toks == Tokenize(text)
  IN  [j \in 1..Len(toks) |-> IF toks[j] = "??" THEN -1 ELSE HexValueOf(toks[j], 2)]

SpelledOffsetsIn(text, img) ==
  LET sp == Spelled(text)
  IN  {o \in 0..(Len(img) - Len(sp)) :
         \A j \in 1..Len(sp) : sp[j] = -1 \/ sp[j] = img[o + j]}

SigTokens == Tokenize(signature)

SigLen == Len(SigTokens)

SigWellFormed == TextWellFormed(signature)

SpelledOffsets == SpelledOffsetsIn(signature, image)

RECURSIVE AscendingFrom(_, _)
AscendingFrom(offs, moduleAddr) ==
  IF offs = {} THEN << >>
  ELSE LET m == CHOOSE o \in offs : \A q \in offs : o <= q
       IN  <<moduleAddr + m>> \o AscendingFrom(offs \ {m}, moduleAddr)

Appended == SubSeq(addresses, Len(addresses0) + 1, Len(addresses))

(* C1: for a well-formed pattern of length 1 <= L <= N the single-result   *)
(* scan returns base + o for the lowest offset o in [0, N-L] at which      *)
(* every non-wildcard position equals the image byte, and returns NotFound *)
(* (0) exactly when there is no such offset.                               *)
C1_ScanFirstLowestMatch ==
  (scanOp = "scanFirst" /\ SigWellFormed /\ SigLen <= Len(image)) =>
    /\ (hit = NotFound) <=> (SpelledOffsets = {})
    /\ SpelledOffsets # {} =>
         /\ hit - base \in SpelledOffsets
         /\ \A q \in SpelledOffsets : hit - base <= q

C1_Witness ==
  /\ scanOp = "scanFirst"
  /\ SigWellFormed
  /\ \E j, k \in 1..SigLen : SigTokens[j] = "??" /\ SigTokens[k] # "??"
  /\ Cardinality(SpelledOffsets) >= 2
  /\ 0 \notin SpelledOffsets
  /\ hit # NotFound

(* C2: for a well-formed pattern of length 1 <= L <= N the vector-filling  *)
(* scan appends the address of every offset in [0, N-L] at which the       *)
(* pattern matches, and only those, in strictly ascending order, after the *)
(* entries the vector already held.                                        *)
C2_ScanAllExactlyTheMatches ==
  (scanOp = "scanAll" /\ SigWellFormed /\ SigLen <= Len(image)) =>
    /\ scanEnd = "returned"
    /\ addresses = addresses0 \o AscendingFrom(SpelledOffsets, base)

(* C3: a position is a wildcard only when its token is ??: at every        *)
(* address the scan reports, each position whose token is not ?? holds the *)
(* byte the token spells (a text without ?? matches only the bytes it      *)
(* spells, FF included).                                                   *)
C3_OnlyQuestionMarksAreWildcards ==
  (scanOp = "scanAll" /\ scanEnd = "returned" /\ SigWellFormed /\ SigLen <= Len(image)) =>
    \A k \in 1..Len(Appended) :
      \A j \in 1..SigLen :
        SigTokens[j] # "??" =>
          image[(Appended[k] - base) + j] = HexValueOf(SigTokens[j], 2)

(* C4: when the pattern is longer than the image the scan examines no      *)
(* offset, reads no byte outside the image and returns with nothing        *)
(* appended.                                                               *)
C4_LongPatternScansNothing ==
  (scanOp = "scanAll" /\ SigLen > Len(image)) =>
    /\ scanEnd = "returned"
    /\ examined = {}
    /\ ~oobRead
    /\ addresses = addresses0

(* C5: a pattern text that is empty or holds a token that is neither ??    *)
(* nor two hex digits is rejected: a scan with it reports no match at any  *)
(* offset.  (Stated for texts of no more tokens than the image has bytes,  *)
(* so that the wrapped loop bound of C4 plays no part.)                    *)
C5_MalformedTextMatchesNothing ==
  (scanOp = "scanAll" /\ ~SigWellFormed /\ SigLen <= Len(image)) =>
    /\ scanEnd = "returned"
    /\ addresses = addresses0

(* ------------------------------------------- patch applied to any input  *)
InitPatch ==
  /\ MainIdle
  /\ CodecIdle
  /\ TileIdle
  /\ image = <<0>>
  /\ base \in ModuleBases
  /\ signature = ""
  /\ addresses = << >>
  /\ addresses0 = << >>
  /\ ScanIdle
  /\ mem = [c \in Cells |-> 204]
  /\ prot \in [PageIds -> Protections \cup {"FREE"}]
  /\ wxDenied \in BOOLEAN
  /\ address \in Cells
  /\ pattern \in UNION {PatchTextsOf(n) : n \in 0..MaxTokens}
  /\ ppc = "idle"
  /\ patternBytes = << >>
  /\ oldProtect = "uninitialized"
  /\ copied = {}
  /\ vp1 = "none"
  /\ mem0 = mem
  /\ prot0 = prot

NextPatch == PatchCall \/ PatchProtect \/ PatchCopy \/ PatchRestore

SpecPatch == InitPatch /\ [][NextPatch]_vars

(* C6: after patch returns, every page of [address, address+len) has the   *)
(* protection it had before the call and the range holds the literal       *)
(* bytes.  (Stated for the calls whose first VirtualProtect succeeded, so  *)
(* that the unchecked failure of C7 plays no part.)                        *)
C6_PatchRestoresProtection ==
  (ppc = "returned" /\ vp1 = "ok") =>
    /\ \A pg \in PagesOf(address, Len(patternBytes)) : prot[pg] = prot0[pg]
    /\ \A k \in 1..Len(patternBytes) : mem[address + k - 1] = patternBytes[k]

(* C7: if the protection change patch asks for fails, no byte of the       *)
(* target range is written and no protection is changed: memory and        *)
(* protection stay as they were before the call.                           *)
C7_FailedProtectWritesNothing ==
  vp1 = "failed" => (mem = mem0 /\ prot = prot0)

(* ------------------------------------------------ the worker thread      *)
BytesOf(text) ==
  LET toks == Tokenize(text)
  IN  [k \in 1..Len(toks) |-> HexValueOf(toks[k], 2)]

(* The code the signatures were taken from (the comments of dllmain.cpp),  *)
(* a look-alike of the tile-render code that calls through another         *)
(* register, and padding.                                                  *)
SegAspect == BytesOf("76 0A F2 0F 5E C8 F2 0F 11 0D 20 81 7A 00 80 3D 18 81 7A 00 00 75 0E 0F 28 05")
SegTextures == BytesOf("66 0F 2F C1 76 10 A1 30 81 7A 00 66 0F 6E 05 34 81 7A 00")
SegTile == BytesOf("F3 0F 11 4C 24 04 F3 0F 11 04 24 51 FF D6")
SegTileOther == BytesOf("F3 0F 11 4C 24 04 F3 0F 11 04 24 51 E8 D6")
SegPad == BytesOf("CC")

SegSet == {SegAspect, SegTextures, SegTile, SegTileOther, SegPad}

(* The headers every image starts with.                                    *)
ImageHeader == BytesOf("4D 5A 90 00 03 00 00 00 04 00 00 00 FF FF 00 00 B8 00 00 00 00 00 00 00")

RECURSIVE ImagesOf(_)
ImagesOf(n) ==
  IF n = 0 THEN {ImageHeader}
  ELSE {i \o g : i \in ImagesOf(n - 1), g \in SegSet}

(* An image that holds the code of all three fixes.                        *)
FullImage == ImageHeader \o SegAspect \o SegTextures \o SegTile

MainImages == UNION {ImagesOf(n) : n \in 0..MaxSegs} \cup {FullImage}

Init ==
  /\ ScanIdle
  /\ CodecIdle
  /\ TileIdle
  /\ signature = ""
  /\ addresses = << >>
  /\ addresses0 = << >>
  /\ PatchIdle
  /\ image \in MainImages
  /\ base \in ModuleBases
  /\ config \in [masterEnable : BOOLEAN, textures : BOOLEAN, tileRenderDistance : BOOLEAN,
                 cameraEnable : {FALSE}, zoom : {F32(150)}]
  /\ yml = YmlZero
  /\ exeName \in {"ed6_win_DX9.exe", "ed6_win3_DX9.exe"}
  /\ moduleName = ""
  /\ moduleId = 0
  /\ pc = "logInit"
  /\ hooks = [f \in Fixes |-> [init |-> FALSE, addr |-> 0]]
  /\ events = << >>

Next == LogInit \/ ReadYml \/ ForceKeepAspect \/ TexturesFix \/ TileRenderFix \/ MainReturn

Spec == Init /\ [][Next]_vars

(* ------------------------------------------------- the claims on Main    *)
EventsOfKind(fix, kind) == SelectSeq(events, LAMBDA e : e.fix = fix /\ e.ev = kind)

LogsOf(fix, msg) ==
  SelectSeq(events, LAMBDA e : e.fix = fix /\ e.ev = "log" /\ e.msg = msg)

Returned(fix) == Len(EventsOfKind(fix, "return")) = 1

ImageAtEntry(fix) == EventsOfKind(fix, "enter")[1].image

ImageAtReturn(fix) == EventsOfKind(fix, "return")[1].image

(* C8: with masterEnable false in the settings, whatever the per-fix       *)
(* flags, patternScan is never called and no mid hook is created at any    *)
(* point of the initialization.                                            *)
C8_MasterDisableScansAndHooksNothing ==
  ~config.masterEnable =>
    \A f \in Fixes :
      /\ EventsOfKind(f, "patternScan") = << >>
      /\ EventsOfKind(f, "create_mid") = << >>
      /\ hooks[f] = [init |-> FALSE, addr |-> 0]
      /\ Returned(f) => ImageAtReturn(f) = ImageAtEntry(f)

C8_Witness ==
  /\ pc = "done"
  /\ ~config.masterEnable
  /\ config.textures
  /\ config.tileRenderDistance
  /\ \A f \in Fixes : Returned(f)
  /\ \E f \in {"texturesFix", "tileRenderFix"} : SpelledOffsetsIn(SignatureOf(f), image) # {}

(* C9: when a fix is enabled and its pattern occurs nowhere in the image,  *)
(* injectHook makes no call to create_mid, leaves the image as it was,     *)
(* logs the pattern text as not found and returns.                         *)
C9_AbsentPatternHooksNothing ==
  \A f \in Fixes :
    (Returned(f) /\ EnableOf(f, config) /\ SpelledOffsetsIn(SignatureOf(f), ImageAtEntry(f)) = {}) =>
      /\ EventsOfKind(f, "create_mid") = << >>
      /\ hooks[f] = [init |-> FALSE, addr |-> 0]
      /\ ImageAtReturn(f) = ImageAtEntry(f)
      /\ Len(LogsOf(f, "Did not find")) = 1
      /\ LogsOf(f, "Did not find")[1].signature = SignatureOf(f)
      /\ LogsOf(f, "Hooked") = << >>
      /\ pc # f

C9_Witness ==
  /\ pc = "done"
  /\ config.masterEnable
  /\ config.tileRenderDistance
  /\ SpelledOffsetsIn(TileSignature, ImageAtEntry("tileRenderFix")) = {}
  /\ \E o \in 0..(Len(image) - Len(SegTileOther)) :
       \A j \in 1..Len(SegTileOther) : image[o + j] = SegTileOther[j]
  /\ Len(LogsOf("tileRenderFix", "Did not find")) = 1
  /\ hooks["forceKeepAspect"].addr # 0

LowestOf(offs) == CHOOSE o \in offs : \A q \in offs : o <= q

(* C10: when a fix is enabled and its pattern is found, injectHook calls   *)
(* create_mid exactly once, at (lowest match address + hook.offset) taken  *)
(* modulo the word, the hook that results is at that address, the hook     *)
(* offset logged is that address minus the module base, and no later match *)
(* is hooked.                                                              *)
C10_HooksFirstMatchPlusOffset ==
  \A f \in Fixes :
    (Returned(f) /\ EnableOf(f, config) /\ SpelledOffsetsIn(SignatureOf(f), ImageAtEntry(f)) # {}) =>
      LET lowest == base + LowestOf(SpelledOffsetsIn(SignatureOf(f), ImageAtEntry(f)))
          target == (lowest + OffsetOf(f)) % Word
          calls == EventsOfKind(f, "create_mid")
      IN  /\ Len(calls) = 1
          /\ calls[1].target = target
          /\ hooks[f].init
          /\ hooks[f].addr = IF calls[1].ok THEN target ELSE 0
          /\ Len(LogsOf(f, "Hooked")) = 1
          /\ LogsOf(f, "Hooked")[1].rel = (target - base) % Word
          /\ \A k \in 1..Len(ImageAtReturn(f)) :
               (k - 1 < target - base \/ k - 1 >= target - base + JumpLen \/ ~calls[1].ok)
                 => ImageAtReturn(f)[k] = ImageAtEntry(f)[k]

C10_Witness ==
  /\ pc = "done"
  /\ Cardinality(SpelledOffsetsIn(AspectSignature, ImageAtEntry("forceKeepAspect"))) >= 2
  /\ Len(EventsOfKind("forceKeepAspect", "create_mid")) = 1
  /\ EventsOfKind("forceKeepAspect", "create_mid")[1].ok
  /\ hooks["forceKeepAspect"].addr = base + Len(ImageHeader) + AspectOffset
  /\ image[Len(ImageHeader) + AspectOffset + 1] = 233
  /\ image[Len(ImageHeader) + Len(SegAspect) + AspectOffset + 1] = 117

(* ------------------------------------------------ the order of the fixes *)
DeclaredOrder == <<"forceKeepAspect", "texturesFix", "tileRenderFix">>

Position(f) == CHOOSE i \in 1..Len(DeclaredOrder) : DeclaredOrder[i] = f

IndicesOf(f) == {i \in 1..Len(events) : events[i].fix = f}

FirstIndexOf(f) == CHOOSE i \in IndicesOf(f) : \A j \in IndicesOf(f) : i <= j

(* C11: the fixes run one after the other in the order forceKeepAspect,    *)
(* texturesFix, tileRenderFix: everything a fix does (its scan, its        *)
(* create_mid, its logs, its return) comes before anything the next fix    *)
(* does, a fix has returned before a later one is entered, and the         *)
(* settings have been read into yml before the first fix is entered, whose *)
(* enable flag comes from them.                                            *)
C11_FixesInDeclaredOrder ==
  /\ \A f, g \in Fixes :
       Position(f) < Position(g) =>
         /\ \A i \in IndicesOf(f), j \in IndicesOf(g) : i < j
         /\ IndicesOf(g) # {} => Returned(f)
  /\ \A f \in Fixes :
       IndicesOf(f) # {} =>
         /\ \E i \in IndicesOf("readYml") : i < FirstIndexOf(f)
         /\ yml.masterEnable = config.masterEnable
         /\ yml.textures = config.textures
         /\ yml.tileRenderDistance = config.tileRenderDistance
         /\ events[FirstIndexOf(f)].ev = "enter"
         /\ events[FirstIndexOf(f)].enable = EnableOf(f, config)

C11_Witness ==
  /\ pc = "done"
  /\ Len(EventsOfKind("forceKeepAspect", "create_mid")) = 1
  /\ Len(EventsOfKind("texturesFix", "patternScan")) = 1
  /\ Len(LogsOf("texturesFix", "Did not find")) = 1
  /\ Len(EventsOfKind("tileRenderFix", "create_mid")) = 1
  /\ hooks["forceKeepAspect"].addr # 0
  /\ hooks["tileRenderFix"].addr # 0

(* ------------------------------------------------ Main runs to its end   *)
(* The worker thread is scheduled until Main has returned: each statement  *)
(* of Main is a synchronous call, and the thread is created runnable.      *)
SpecFair == Init /\ [][Next]_vars /\ WF_vars(Next)

Outcomes == {"disabled", "pattern not found", "hook installed", "hook installation failed"}

OutcomeOf(f) ==
  IF EventsOfKind(f, "enter") = << >> THEN "not attempted"
  ELSE IF ~EventsOfKind(f, "enter")[1].enable THEN "disabled"
  ELSE IF LogsOf(f, "Did not find") # << >> THEN "pattern not found"
  ELSE IF EventsOfKind(f, "create_mid") = << >> THEN "no hook asked for"
  ELSE IF EventsOfKind(f, "create_mid")[1].ok THEN "hook installed"
  ELSE "hook installation failed"

MainCompleted ==
  /\ pc = "done"
  /\ events[Len(events)] = [ev |-> "Main returns", fix |-> "Main", value |-> TRUE]
  /\ \A f \in Fixes : Returned(f) /\ OutcomeOf(f) \in Outcomes

(* C12: Main always terminates, returning true, with every one of the      *)
(* three fixes entered and returned, whichever of the outcomes disabled,   *)
(* pattern not found, hook installed, hook installation failed each fix    *)
(* had.                                                                    *)
C12_MainAlwaysCompletes == <>MainCompleted

C12_Witness ==
  /\ MainCompleted
  /\ OutcomeOf("forceKeepAspect") = "hook installation failed"
  /\ OutcomeOf("texturesFix") = "pattern not found"
  /\ OutcomeOf("tileRenderFix") = "hook installed"

(* ------------------------------------------------ a hook that fails      *)
(* C13: when create_mid fails for a fix, the failure is logged and the fix *)
(* is skipped: the log of that fix has a line for the failure and no       *)
(* "Hooked" line, the image is as it was, and the fix returns.             *)
C13_FailedInstallLoggedNotHooked ==
  \A f \in Fixes :
    (Returned(f) /\ OutcomeOf(f) = "hook installation failed") =>
      /\ LogsOf(f, "Hooked") = << >>
      /\ \E i \in IndicesOf(f) :
           events[i].ev = "log" /\ events[i].msg \notin {"Fix", "Found", "Hooked"}
      /\ ImageAtReturn(f) = ImageAtEntry(f)
      /\ pc # f

(* ------------------------------------------------ encode, then decode    *)
MaxBytes == 3

CodecBytes == {0, 10, 127, 171, 255}

InitCodec ==
  /\ ScanIdle
  /\ signature = ""
  /\ addresses = << >>
  /\ addresses0 = << >>
  /\ image = <<0>>
  /\ base \in ModuleBases
  /\ PatchIdle
  /\ MainIdle
  /\ TileIdle
  /\ bytes \in UNION {[1..n -> CodecBytes] : n \in 0..MaxBytes}
  /\ encoded = ""
  /\ patchDecoded = << >>
  /\ scanDecoded = << >>
  /\ cdone = {}

NextCodec == Encode \/ DecodeForPatch \/ DecodeForScan

SpecCodec == InitCodec /\ [][NextCodec]_vars

(* A byte of a scan pattern stands for the concrete byte b when the scan's *)
(* comparison accepts b at its position and no other byte.                 *)
IsConcreteToken(patternByte, b) ==
  \A x \in 0..255 : ByteMatches(patternByte, x) <=> (x = b)

(* C14: for every byte sequence b, the text bytesToString makes of b is    *)
(* decoded by patch's decoder and by patternScan's decoder to a pattern as *)
(* long as b whose i-th token is the concrete byte b[i]: patch would write *)
(* exactly b, and the scan pattern matches b[i] and nothing else at i.     *)
C14_EncodeDecodeRoundTrip ==
  /\ "patch threw" \notin cdone
  /\ "patch" \in cdone =>
       /\ Len(patchDecoded) = Len(bytes)
       /\ \A i \in 1..Len(bytes) : patchDecoded[i] = bytes[i]
  /\ "scan" \in cdone =>
       /\ Len(scanDecoded) = Len(bytes)
       /\ \A i \in 1..Len(bytes) : IsConcreteToken(scanDecoded[i], bytes[i])

(* ------------------------------------------------ hooks stay             *)
Installed(f) == hooks[f].addr # 0

SuccessfulInstalls(f) ==
  SelectSeq(events, LAMBDA e : e.fix = f /\ e.ev = "create_mid" /\ e.ok)

(* C15: an installed hook stays: in every step taken while the hook of a   *)
(* fix is installed, that fix's hook object (whose callback is the one of  *)
(* its own injectHook instantiation) is left as it is, at the same         *)
(* address, and the jump written at that address stays in the image; and   *)
(* no fix ever has more than one successful installation.                  *)
C15_InstalledHooksStay ==
  /\ [](\A f \in Fixes : Len(SuccessfulInstalls(f)) <= 1)
  /\ [][\A f \in Fixes :
          Installed(f) =>
            /\ hooks'[f] = hooks[f]
            /\ \A k \in 1..JumpLen :
                 image'[hooks[f].addr - base + k] = image[hooks[f].addr - base + k]]_vars

C15_Witness ==
  /\ pc = "done"
  /\ Installed("forceKeepAspect")
  /\ image[hooks["forceKeepAspect"].addr - base + 1] = 233
  /\ OutcomeOf("forceKeepAspect") = "hook installed"
  /\ OutcomeOf("texturesFix") = "hook installation failed"
  /\ OutcomeOf("tileRenderFix") = "pattern not found"

(* ------------------------------------------------ patch, seen by others  *)
(* patch takes no lock and stops no thread: every state between its       *)
(* statements, and between the byte stores of its memcpy, is one a thread  *)
(* of the host can read.                                                   *)
(* C16: patch is not atomic for the host's other threads: between the two  *)
(* VirtualProtect calls every page of the range is writable and            *)
(* executable, and the range holds the new byte at each position memcpy    *)
(* has stored and the old byte at each position it has not, so that with   *)
(* some but not all positions stored (the witness) a reader sees a mix of  *)
(* old and new bytes.                                                      *)
C16_PatchWindowIsObservable ==
  (ppc = "copy" /\ vp1 = "ok") =>
    /\ \A pg \in PagesOf(address, Len(patternBytes)) : prot[pg] = "RWX"
    /\ \A k \in 1..Len(patternBytes) :
         mem[address + k - 1] =
           IF k \in copied THEN patternBytes[k] ELSE mem0[address + k - 1]

C16_Witness ==
  /\ ppc = "copy"
  /\ vp1 = "ok"
  /\ copied # {}
  /\ copied # 1..Len(patternBytes)
  /\ \E k \in copied : mem[address + k - 1] # mem0[address + k - 1]
  /\ \E k \in (1..Len(patternBytes)) \ copied : mem[address + k - 1] # patternBytes[k]
  /\ PageOf(address) # PageOf(address + Len(patternBytes) - 1)
  /\ \A pg \in PagesOf(address, Len(patternBytes)) : prot0[pg] = "RX" /\ prot[pg] = "RWX"

(* ------------------------------- the tile-render callback in the game    *)
(* Main runs on an image that holds the tile-render code; once the hook of *)
(* tileRenderFix is installed the game's thread runs the callback whenever *)
(* it reaches the hooked instruction, and the game stores into its floats  *)
(* at any time.                                                            *)
TileImages == {ImageHeader \o SegTile}

ExeNames == {"ed6_win_DX9.exe", "ed6_win3_DX9.exe", "ed6_win_DX8.exe"}

InitTile ==
  /\ ScanIdle
  /\ signature = ""
  /\ addresses = << >>
  /\ addresses0 = << >>
  /\ PatchIdle
  /\ CodecIdle
  /\ TileIdle
  /\ image \in TileImages
  /\ base \in ModuleBases
  /\ config \in [masterEnable : BOOLEAN, textures : {FALSE}, tileRenderDistance : BOOLEAN,
                 cameraEnable : BOOLEAN, zoom : {F32(50), F32(150)}]
  /\ yml = YmlZero
  /\ exeName \in ExeNames
  /\ moduleName = ""
  /\ moduleId = 0
  /\ pc = "logInit"
  /\ hooks = [f \in Fixes |-> [init |-> FALSE, addr |-> 0]]
  /\ events = << >>

NextTile ==
  \/ LogInit \/ ReadYml \/ ForceKeepAspect \/ TexturesFix \/ TileRenderFix \/ MainReturn
  \/ TileCallback \/ GameWrite

SpecTile == InitTile /\ [][NextTile]_vars

(* The float the claim names, and the zoom the settings give.              *)
ClaimedTarget == fov[IF exeName = "ed6_win3_DX9.exe" THEN 48 ELSE 36]

ConfiguredZoom == IF config.cameraEnable THEN config.zoom ELSE F32(100)

(* C17: for the tile-render callback, whatever the game stores in between: *)
(* after an invocation the target float (eax+0x30 for the 3RD game,        *)
(* eax+0x24 otherwise) holds 2*pi; xmm0 lane 0 is originalFov times the    *)
(* configured zoom (1 with the camera feature disabled); originalFov       *)
(* changes only in an invocation that found the target different from 2*pi *)
(* and then is the value found; it is zero until such an invocation has    *)
(* happened and is never 2*pi.                                             *)
C17_TileCallbackInvariants ==
  /\ [](/\ last = "callback" =>
            /\ ClaimedTarget = NewFov
            /\ xmm0 = F32Mul(originalFov, ConfiguredZoom)
            /\ F32Ne(entryTarget, NewFov) => originalFov = entryTarget
        /\ ~captured => originalFov = F32(0)
        /\ originalFov # NewFov)
  /\ [][originalFov' # originalFov =>
          /\ last' = "callback"
          /\ F32Ne(ClaimedTarget, NewFov)
          /\ originalFov' = ClaimedTarget]_vars

C17_Witness ==
  /\ last = "callback"
  /\ exeName = "ed6_win3_DX9.exe"
  /\ config.cameraEnable
  /\ config.zoom = F32(150)
  /\ captured
  /\ entryTarget = NewFov
  /\ originalFov = F32(28)
  /\ xmm0 = F32(42)
  /\ fov[48] = NewFov
  /\ fov[36] = NaN

====
